---- MODULE Spec2Model ----
(***************************************************************************)
(* A client-side mirror of a remote table (svupa): the Table class with    *)
(* its TableStore cache, its PessimisticBackup log, the push handler of    *)
(* the realtime channel, the paginated initial load and the local update   *)
(* and delete calls.  Every await of the source is a point between two     *)
(* actions; the code between two awaits runs as one action.  The remote    *)
(* table is the list of rows its backend holds; other clients write it.    *)
(*                                                                         *)
(* JavaScript objects are records: a TableRow instance carries the field   *)
(* cls, a plain object does not, and a missing property reads as           *)
(* Undefined.  Row data has the columns pk (the primary key) and score.    *)
(***************************************************************************)
EXTENDS Integers, Sequences, FiniteSets, TLC

\* ---------------------------------------------------------------- bounds
MaxVal == 2      \* scores are 1..MaxVal
MaxCalls == 2    \* local update/delete calls in flight at once
MaxRefs == 2     \* cap on BackupRow.subscribers (failed calls never release)
MaxConds == 1    \* conditions added by filter()
MaxCount == 3    \* largest row count the count query reports
PageSize == 2    \* pageSize of _addInitialRows, scaled down from 1000
MaxSet == 2      \* conditions of a table constructed with conditions

\* The primary keys, in the order the backend lists rows by.
KeySeq == <<"k1", "k2", "k3", "k4">>
Keys == {KeySeq[i] : i \in DOMAIN KeySeq}
KeyRank(pk) == CHOOSE i \in DOMAIN KeySeq : KeySeq[i] = pk
Vals == 1..MaxVal

\* The value `undefined`, and `undefined` used as a Map key or row id.
Undefined == [undefined |-> TRUE]
UndefinedKey == "undefined"

\* Row data as the backend delivers it and as callers pass it.
RowData == [pk : Keys, score : Vals]

\* o[f] of JavaScript: a missing property is undefined.
Get(o, f) == IF f \in DOMAIN o THEN o[f] ELSE Undefined

\* o.id, read as a Map key.
GetId(o) == IF "id" \in DOMAIN o THEN o.id ELSE UndefinedKey

Truthy(v) == v # Undefined

\* row instanceof TableRow
IsTableRow(o) == "cls" \in DOMAIN o

\* primaryKeys.generateRowID: the identity is the value of the key column.
GenerateRowID(data) == IF "pk" \in DOMAIN data THEN data.pk ELSE UndefinedKey

\* new TableRow(data, keys)
NewTableRow(data) ==
  [cls |-> "TableRow", id |-> GenerateRowID(data), data |-> data]

\* structuredClone keeps the own properties and drops the prototype.
StructuredClone(o) == [f \in (DOMAIN o) \ {"cls"} |-> o[f]]

\* ------------------------------------------------------------ conditions
\* checkCondition that lets an unrecognized operator pass.
CheckConditionOpen(row, condition) ==
  LET defined == condition.column \in DOMAIN row.data
      v == Get(row.data, condition.column)
  IN CASE condition.type = "eq" -> defined /\ v = condition.value
       [] condition.type = "neq" -> ~defined \/ v # condition.value
       [] condition.type = "gt" -> defined /\ v > condition.value
       [] condition.type = "lt" -> defined /\ v < condition.value
       [] condition.type = "gte" -> defined /\ v >= condition.value
       [] condition.type = "lte" -> defined /\ v <= condition.value
       [] OTHER -> TRUE

\* TableRow.checkCondition
CheckCondition(row, condition) ==
  LET defined == condition.column \in DOMAIN row.data
      v == Get(row.data, condition.column)
  IN CASE condition.type = "eq" -> defined /\ v = condition.value
       [] condition.type = "neq" -> ~defined \/ v # condition.value
       [] condition.type = "gt" -> defined /\ v > condition.value
       [] condition.type = "lt" -> defined /\ v < condition.value
       [] condition.type = "gte" -> defined /\ v >= condition.value
       [] condition.type = "lte" -> defined /\ v <= condition.value
       [] OTHER -> FALSE

\* TableRow.checkConditions: the loop returns false at the first failure.
RECURSIVE CheckFrom(_, _, _)
CheckFrom(row, conds, i) ==
  IF i > Len(conds) THEN TRUE
  ELSE IF ~CheckCondition(row, conds[i]) THEN FALSE
  ELSE CheckFrom(row, conds, i + 1)

CheckConditions(row, conds) == CheckFrom(row, conds, 1)

\* ------------------------------------------------------- mapStore (cache)
\* An ordered map: a sequence of [id, data] entries in insertion order.
MapHas(st, id) == \E i \in DOMAIN st : st[i].id = id

MapGet(st, id) ==
  IF MapHas(st, id)
  THEN (st[CHOOSE i \in DOMAIN st : st[i].id = id]).data
  ELSE Undefined

MapUpsert(st, id, data) ==
  IF MapHas(st, id)
  THEN [i \in DOMAIN st |-> IF st[i].id = id THEN [id |-> id, data |-> data]
                                            ELSE st[i]]
  ELSE Append(st, [id |-> id, data |-> data])

MapRemove(st, id) == SelectSeq(st, LAMBDA e : e.id # id)

\* The derived store of TableStore: [...$store.values()]
Values(st) == [i \in DOMAIN st |-> st[i].data]

\* ------------------------------------------------------------ TableStore
\* TableStore.__convertRow
ConvertRow(row) ==
  IF IsTableRow(row) THEN row
  ELSE IF Truthy(Get(row, "row")) THEN row.row
  ELSE NewTableRow(row)

\* TableStore.upsert
StoreUpsert(st, row) ==
  LET tableRow == ConvertRow(row)
  IN MapUpsert(st, GetId(tableRow), Get(tableRow, "data"))

\* TableStore.delete
StoreDelete(st, row) ==
  LET tableRow == ConvertRow(row)
  IN MapRemove(st, GetId(tableRow))

\* ----------------------------------------------------- PessimisticBackup
\* data: Map<string, BackupRow> is a function on the keys present.
Has(bk, id) == id \in DOMAIN bk

BackupGet(bk, id) == IF id \in DOMAIN bk THEN bk[id] ELSE Undefined

\* backup that stores the row it is called with every time.
BackupLatest(bk, row) ==
  LET id == GetId(row)
  IN IF Has(bk, id)
     THEN [bk EXCEPT ![id] = [row |-> StructuredClone(row),
                              subscribers |-> @.subscribers + 1]]
     ELSE bk @@ (id :> [row |-> StructuredClone(row), subscribers |-> 1])

\* backup: the entry of a row that has one counts one subscriber more.
Backup(bk, row) ==
  LET id == GetId(row)
  IN IF Has(bk, id)
     THEN [bk EXCEPT ![id].subscribers = @ + 1]
     ELSE bk @@ (id :> [row |-> StructuredClone(row), subscribers |-> 1])

\* release that returns silently when the row has no entry.
ReleaseSilent(bk, row) ==
  LET id == GetId(row)
  IN IF ~Has(bk, id)
     THEN [threw |-> FALSE, data |-> bk, ret |-> Undefined]
     ELSE LET n == bk[id].subscribers - 1
          IN [threw |-> FALSE,
              data |-> IF n = 0
                       THEN [k \in (DOMAIN bk) \ {id} |-> bk[k]]
                       ELSE [bk EXCEPT ![id].subscribers = n],
              ret |-> bk[id].row]

\* release: [threw, data, ret]; a throw leaves the log as it was.
Release(bk, row) ==
  LET id == GetId(row)
  IN IF ~Has(bk, id)
     THEN [threw |-> TRUE, data |-> bk, ret |-> Undefined]
     ELSE LET n == bk[id].subscribers - 1
          IN [threw |-> FALSE,
              data |-> IF n = 0
                       THEN [k \in (DOMAIN bk) \ {id} |-> bk[k]]
                       ELSE [bk EXCEPT ![id].subscribers = n],
              ret |-> bk[id].row]

\* ----------------------------------------------------------------- Table
\* _upsertInternal without the look at the backup log.
UpsertInternalNoHold(st, bk, row, timestamp) ==
  IF row = Undefined THEN [threw |-> TRUE, store |-> st, notify |-> FALSE]
  ELSE [threw |-> FALSE, store |-> StoreUpsert(st, row), notify |-> TRUE]

\* _upsertInternal: [threw, store, notify].  An undefined row is a
\* TypeError (the read of row.row in __convertRow at the latest).  notify
\* tells whether the store was written, which is when subscribers are run.
UpsertInternal(st, bk, row, timestamp) ==
  IF row = Undefined THEN [threw |-> TRUE, store |-> st, notify |-> FALSE]
  ELSE LET tableRow == IF IsTableRow(row) THEN row ELSE NewTableRow(row)
       IN IF timestamp /\ Has(bk, tableRow.id)
          THEN [threw |-> FALSE, store |-> st, notify |-> FALSE]
          ELSE [threw |-> FALSE, store |-> StoreUpsert(st, row),
                notify |-> TRUE]

\* _deleteInternal
DeleteInternal(st, row) == StoreDelete(st, row)

\* __parseSubscriptionPayload: the row is payload.old for a DELETE and
\* payload.new otherwise; commit_timestamp becomes a Date object, which is
\* truthy whatever the payload held.
ParseSubscriptionPayload(payload) ==
  LET row == IF payload.eventType = "DELETE" THEN payload.old ELSE payload.new
  IN [tableRow |-> NewTableRow(row), event |-> payload.eventType,
      timestamp |-> TRUE]

\* The push handler without the relevance check: it goes by the event.
HandlePayloadByEvent(st, bk, conds, payload) ==
  LET p == ParseSubscriptionPayload(payload)
  IN IF p.event \in {"INSERT", "UPDATE"}
     THEN LET up == UpsertInternal(st, bk, p.tableRow, p.timestamp)
          IN [store |-> up.store, notify |-> up.notify]
     ELSE [store |-> DeleteInternal(st, p.tableRow), notify |-> TRUE]

\* The push handler of _subscribeToChannel: [store, notify].
HandlePayload(st, bk, conds, payload) ==
  LET p == ParseSubscriptionPayload(payload)
  IN IF ~CheckConditions(p.tableRow, conds)
     THEN [store |-> DeleteInternal(st, p.tableRow), notify |-> TRUE]
     ELSE IF p.event \in {"INSERT", "UPDATE"}
     THEN LET up == UpsertInternal(st, bk, p.tableRow, p.timestamp)
          IN [store |-> up.store, notify |-> up.notify]
     ELSE IF p.event = "DELETE"
     THEN [store |-> DeleteInternal(st, p.tableRow), notify |-> TRUE]
     ELSE [store |-> st, notify |-> FALSE]

\* update, up to its await: [store, data, notify].
UpdateBegin(st, bk, optimistic, row) ==
  IF optimistic
  THEN LET bk1 == Backup(bk, row)
           up == UpsertInternal(st, bk1, row, FALSE)
       IN [store |-> up.store, data |-> bk1, notify |-> up.notify]
  ELSE [store |-> st, data |-> bk, notify |-> FALSE]

\* update, from the remote result on: [threw, store, data, notify, ret].
UpdateResume(st, bk, optimistic, row, success) ==
  IF optimistic /\ success
  THEN LET r == Release(bk, row)
       IN [threw |-> r.threw, store |-> st, data |-> r.data,
           notify |-> FALSE, ret |-> [status |-> success]]
  ELSE LET revokedRow == BackupGet(bk, GetId(row))
           up == UpsertInternal(st, bk, revokedRow, FALSE)
       IN [threw |-> up.threw, store |-> up.store, data |-> bk,
           notify |-> up.notify, ret |-> [status |-> success]]

\* delete, up to its await: [store, data, notify].
DeleteBegin(st, bk, optimistic, row) ==
  IF optimistic
  THEN [store |-> DeleteInternal(st, row), data |-> Backup(bk, row),
        notify |-> TRUE]
  ELSE [store |-> st, data |-> bk, notify |-> FALSE]

\* delete, from the remote result on: [threw, store, data, notify, ret].
DeleteResume(st, bk, optimistic, row, success) ==
  IF optimistic
  THEN IF success
       THEN LET r == Release(bk, row)
            IN [threw |-> r.threw, store |-> st, data |-> r.data,
                notify |-> FALSE, ret |-> TRUE]
       ELSE LET revokedRow == BackupGet(bk, GetId(row))
                up == UpsertInternal(st, bk, revokedRow, FALSE)
            IN [threw |-> up.threw, store |-> up.store, data |-> bk,
                notify |-> up.notify, ret |-> FALSE]
  ELSE LET r == Release(bk, row)
       IN [threw |-> r.threw, store |-> st, data |-> r.data,
           notify |-> FALSE, ret |-> success]

\* ----------------------------------------------------------------- state
VARIABLES
  optimisticUpdates, \* Table.optimisticUpdates
  conditions,        \* Table.conditions.conditions
  store,             \* Table.__store.__store: the ordered map
  snapshot,          \* the array the subscriber of the table last received
  backup,            \* Table.pessimisticBackup.data
  calls,             \* the update/delete calls awaiting their remote result,
                     \* in the order they began
  phase,             \* Uninitialized, Loading (init running), Live
  loader,            \* where _addInitialRows stands
  remote,            \* the rows of the remote table, in the order the
                     \* backend lists them
  last               \* what the last step did

vars == <<optimisticUpdates, conditions, store, snapshot, backup, calls,
          phase, loader, remote, last>>

Quiet == [act |-> "none"]

\* The events of the realtime channel.  The old row of a DELETE may hold
\* the key columns only.
Payloads ==
  [eventType : {"INSERT", "UPDATE"}, new : RowData, old : {Undefined}]
    \cup [eventType : {"DELETE"}, new : {Undefined},
          old : RowData \cup [pk : Keys]]

\* The conditions filter() is called with.
FilterConds == {[type |-> "lt", column |-> "score", value |-> MaxVal]}

\* Sequences over S of length n at most.
RECURSIVE SeqsUpTo(_, _)
SeqsUpTo(S, n) ==
  IF n = 0 THEN {<<>>}
  ELSE LET shorter == SeqsUpTo(S, n - 1)
       IN shorter \cup {Append(q, x) : q \in shorter, x \in S}

\* The remote tables: MaxCount rows at most, no primary key twice.
Tables ==
  {t \in SeqsUpTo(RowData, MaxCount) :
     \A i, j \in DOMAIN t : i # j => t[i].pk # t[j].pk}

\* The rows of the table that pass the conditions.
Passing(table, conds) ==
  SelectSeq(table, LAMBDA d : CheckConditions(NewTableRow(d), conds))

\* What the backend answers to select("*").range(start, end) with the
\* conditions of `query` applied: the rows of the table that pass them,
\* from the place `start` to the place `end` (counted from 0).
RangeOf(table, query, start, end) ==
  LET passing == Passing(table, query)
      from == start + 1
      to == IF end + 1 < Len(passing) THEN end + 1 ELSE Len(passing)
  IN IF from > to THEN <<>> ELSE SubSeq(passing, from, to)

\* The identity a call is about.
CallIdentity(row) == IF IsTableRow(row) THEN row.id ELSE GenerateRowID(row)

\* The calls in flight on identity id: their places in `calls`.
Awaiting(cs, id) == {d \in DOMAIN cs : CallIdentity(cs[d].row) = id}

\* What a call in flight remembers for the properties below.  hist is what
\* has happened to its identity since it began:
\*   solo         nothing: no other call, no push event, no page row
\*   lead         one update began after it and is still in flight
\*   leadS, leadF that update has succeeded, has failed
\*   mixed        anything else
\* pre is the data the cache held for its identity when it began, and same
\* tells whether the caller passed that very data (both kept while hist is
\* not mixed).
Mixed(call) ==
  [call EXCEPT !.hist = "mixed", !.pre = Undefined, !.same = FALSE]

\* Calls in flight on the identities `ids` see a push event or a page row.
Disturb(cs, ids) ==
  [d \in DOMAIN cs |->
     IF CallIdentity(cs[d].row) \in ids THEN Mixed(cs[d]) ELSE cs[d]]

\* A call begins: it is appended, and the calls in flight on its identity
\* see it.
Started(cs, op, row, st) ==
  LET id == CallIdentity(row)
      others == Awaiting(cs, id)
      joins == /\ op = "update"
               /\ Cardinality(others) = 1
               /\ \A d \in others : cs[d].op = "update" /\ cs[d].hist = "solo"
      seen == [d \in DOMAIN cs |->
                 IF d \notin others THEN cs[d]
                 ELSE IF joins THEN [cs[d] EXCEPT !.hist = "lead"]
                 ELSE Mixed(cs[d])]
      call == [op |-> op, row |-> row, pre |-> MapGet(st, id),
               hist |-> "solo", same |-> (Get(row, "data") = MapGet(st, id))]
  IN Append(seen, IF others = {} THEN call ELSE Mixed(call))

\* The call at place c settles: it leaves `calls`, and the calls in flight
\* on its identity see how it ended.
Settled(cs, c, success) ==
  LET others == Awaiting(cs, CallIdentity(cs[c].row)) \ {c}
      seen == [d \in DOMAIN cs |->
                 IF d \notin others THEN cs[d]
                 ELSE IF cs[d].hist = "lead"
                 THEN [cs[d] EXCEPT
                         !.hist = IF success THEN "leadS" ELSE "leadF"]
                 ELSE Mixed(cs[d])]
  IN [d \in 1..(Len(cs) - 1) |-> IF d < c THEN seen[d] ELSE seen[d + 1]]

Init ==
  /\ optimisticUpdates \in BOOLEAN
  /\ conditions = <<>>
  /\ store = <<>>
  /\ snapshot = <<>>
  /\ backup = [k \in {} |-> Undefined]
  /\ calls = <<>>
  /\ phase = "Uninitialized"
  /\ loader = [pc |-> "idle"]
  /\ remote \in Tables
  /\ last = Quiet

\* filter(condition)
Filter(cond) ==
  /\ Len(conditions) < MaxConds
  /\ conditions' = Append(conditions, cond)
  /\ last' = Quiet
  /\ UNCHANGED <<optimisticUpdates, store, snapshot, backup, calls, phase,
                 loader, remote>>

\* init() that subscribes to the channel before it loads.
InitCallSubscribed ==
  /\ phase = "Uninitialized"
  /\ phase' = "Live"
  /\ loader' = [pc |-> "count"]
  /\ last' = Quiet
  /\ UNCHANGED <<optimisticUpdates, conditions, store, snapshot, backup,
                 calls, remote>>

\* init(), up to the await of the count query.
InitCall ==
  /\ phase = "Uninitialized"
  /\ phase' = "Loading"
  /\ loader' = [pc |-> "count"]
  /\ last' = Quiet
  /\ UNCHANGED <<optimisticUpdates, conditions, store, snapshot, backup,
                 calls, remote>>

\* A range request whose window stops at the last row counted.
FetchRequestClipped(count, start) ==
  [pc |-> "fetch", count |-> count, start |-> start,
   end |-> IF start + PageSize < count THEN start + PageSize - 1
           ELSE count - 1,
   query |-> conditions]

\* The range request for the window starting at `start`.
FetchRequest(count, start) ==
  [pc |-> "fetch", count |-> count, start |-> start,
   end |-> start + PageSize - 1, query |-> conditions]

\* A count query whose error is not looked at.
CountReturnUnchecked(error, count) ==
  /\ loader.pc = "count"
  /\ loader' = IF count = 0 THEN [pc |-> "subscribe"]
               ELSE FetchRequest(count, 0)
  /\ last' = [act |-> "count", error |-> error, count |-> count]
  /\ UNCHANGED <<optimisticUpdates, conditions, store, snapshot, backup,
                 calls, phase, remote>>

\* The count query answers: an error or no count ends the load.
CountReturn(error, count) ==
  /\ loader.pc = "count"
  /\ loader' = IF error \/ count = 0 THEN [pc |-> "subscribe"]
               ELSE FetchRequest(count, 0)
  /\ last' = [act |-> "count", error |-> error, count |-> count]
  /\ UNCHANGED <<optimisticUpdates, conditions, store, snapshot, backup,
                 calls, phase, remote>>

\* for (const row of data) this._upsertInternal(row)
RECURSIVE UpsertAll(_, _, _)
UpsertAll(st, bk, data) ==
  IF data = <<>> THEN st
  ELSE UpsertAll(UpsertInternal(st, bk, Head(data), FALSE).store, bk,
                 Tail(data))

\* One snapshot for a whole page, taken after its last row.
SnapshotsBatched(st, bk, data) ==
  IF data = <<>> THEN <<>> ELSE <<Values(UpsertAll(st, bk, data))>>

\* What the subscriber of the table receives while that loop runs: the
\* store runs its subscribers inside every upsert, with the values it
\* holds by then.
RECURSIVE Snapshots(_, _, _)
Snapshots(st, bk, data) ==
  IF data = <<>> THEN <<>>
  ELSE LET up == UpsertInternal(st, bk, Head(data), FALSE)
       IN (IF up.notify THEN <<Values(up.store)>> ELSE <<>>)
            \o Snapshots(up.store, bk, Tail(data))

\* A range request answers: an error ends the load, otherwise the rows are
\* upserted and the next window is requested while start < count.
FetchReturn(error, data) ==
  /\ loader.pc = "fetch"
  /\ IF error
     THEN /\ loader' = [pc |-> "subscribe"]
          /\ UNCHANGED <<store, snapshot, calls>>
     ELSE /\ store' = UpsertAll(store, backup, data)
          /\ LET seen == Snapshots(store, backup, data)
             IN snapshot' = IF seen = <<>> THEN snapshot
                            ELSE seen[Len(seen)]
          /\ calls' = Disturb(calls, {GenerateRowID(data[i]) :
                                         i \in DOMAIN data})
          /\ loader' = IF loader.start + PageSize < loader.count
                       THEN FetchRequest(loader.count,
                                         loader.start + PageSize)
                       ELSE [pc |-> "subscribe"]
  /\ last' = [act |-> "page", error |-> error, count |-> loader.count,
              start |-> loader.start, data |-> data,
              seen |-> IF error THEN <<>>
                       ELSE Snapshots(store, backup, data)]
  /\ UNCHANGED <<optimisticUpdates, conditions, backup, phase, remote>>

\* The count query answers with the number of rows of the remote table
\* (no prefilter is set), or with an error.
CountAnswer ==
  \E error \in BOOLEAN : CountReturn(error, Len(remote))

\* The range request in flight answers with the rows the remote table
\* holds by then, or with an error.
FetchAnswer ==
  /\ loader.pc = "fetch"
  /\ \E error \in BOOLEAN :
       FetchReturn(error, RangeOf(remote, loader.query, loader.start,
                                  loader.end))

\* init() goes on after _addInitialRows: _subscribeToChannel.
SubscribeChannel ==
  /\ loader.pc = "subscribe"
  /\ loader' = [pc |-> "done"]
  /\ phase' = "Live"
  /\ last' = Quiet
  /\ UNCHANGED <<optimisticUpdates, conditions, store, snapshot, backup,
                 calls, remote>>

\* A push event reaches the handler of _subscribeToChannel.
Deliver(payload) ==
  LET p == ParseSubscriptionPayload(payload)
      h == HandlePayload(store, backup, conditions, payload)
  IN /\ phase = "Live"
     /\ store' = h.store
     /\ snapshot' = IF h.notify THEN Values(h.store) ELSE snapshot
     /\ calls' = Disturb(calls, {p.tableRow.id})
     /\ last' = [act |-> "push", id |-> p.tableRow.id, event |-> p.event,
                 relevant |-> CheckConditions(p.tableRow, conditions),
                 cached |-> MapHas(store, p.tableRow.id)]
     /\ UNCHANGED <<optimisticUpdates, conditions, backup, phase, loader>>

\* A push event about a change some other client has made.
Push(payload) == Deliver(payload) /\ UNCHANGED remote

\* The place of the row of primary key pk in the table, 0 when it has none.
PlaceOf(table, pk) ==
  IF \E i \in DOMAIN table : table[i].pk = pk
  THEN CHOOSE i \in DOMAIN table : table[i].pk = pk
  ELSE 0

\* The row of primary key pk in the table, Undefined when it has none.
RowOf(table, pk) ==
  IF PlaceOf(table, pk) = 0 THEN Undefined ELSE table[PlaceOf(table, pk)]

\* The realtime channel carries the change of another client: the handler
\* runs when the channel has been subscribed, and nothing happens in this
\* client otherwise.  `last` then tells which row the client has missed a
\* change of, whether the row changed passes the conditions, and whether
\* the load had ended with the cache holding the rows of the remote table
\* that pass them.
Changed(payload) ==
  IF phase = "Live" THEN Deliver(payload)
  ELSE /\ last' = [act |-> "missed",
                   id |-> ParseSubscriptionPayload(payload).tableRow.id,
                   relevant |->
                     CheckConditions(
                       NewTableRow(IF payload.eventType = "DELETE"
                                   THEN RowOf(remote, payload.old.pk)
                                   ELSE payload.new), conditions),
                   loaded |-> /\ loader.pc = "subscribe"
                              /\ Values(store) = Passing(remote, conditions)]
       /\ UNCHANGED <<optimisticUpdates, conditions, store, snapshot,
                      backup, calls, phase, loader>>

\* Another client inserts a row into the remote table.
RemoteInsert(row) ==
  /\ PlaceOf(remote, row.pk) = 0
  /\ Len(remote) < MaxCount
  /\ remote' = Append(remote, row)
  /\ Changed([eventType |-> "INSERT", new |-> row, old |-> Undefined])

\* Another client updates a row of the remote table.
RemoteUpdate(row) ==
  /\ PlaceOf(remote, row.pk) # 0
  /\ remote[PlaceOf(remote, row.pk)] # row
  /\ remote' = [remote EXCEPT ![PlaceOf(remote, row.pk)] = row]
  /\ Changed([eventType |-> "UPDATE", new |-> row, old |-> Undefined])

\* Another client deletes a row of the remote table; the event carries
\* the key columns of the old row.
RemoteDelete(pk) ==
  /\ PlaceOf(remote, pk) # 0
  /\ remote' = SelectSeq(remote, LAMBDA d : d.pk # pk)
  /\ Changed([eventType |-> "DELETE", new |-> Undefined, old |-> [pk |-> pk]])

\* No call begins when MaxCalls are in flight or a BackupRow would count
\* more than MaxRefs subscribers.
MayStart(data) ==
  /\ Len(calls) < MaxCalls
  /\ \A k \in DOMAIN data : data[k].subscribers <= MaxRefs

\* update(row), up to the await of the remote upsert.
UpdateCall(row) ==
  LET b == UpdateBegin(store, backup, optimisticUpdates, row)
  IN /\ MayStart(b.data)
     /\ store' = b.store
     /\ backup' = b.data
     /\ snapshot' = IF b.notify THEN Values(b.store) ELSE snapshot
     /\ calls' = Started(calls, "update", row, store)
     /\ last' = Quiet
     /\ UNCHANGED <<optimisticUpdates, conditions, phase, loader, remote>>

\* delete(row), up to the await of the remote delete.
DeleteCall(row) ==
  LET b == DeleteBegin(store, backup, optimisticUpdates, row)
  IN /\ MayStart(b.data)
     /\ store' = b.store
     /\ backup' = b.data
     /\ snapshot' = IF b.notify THEN Values(b.store) ELSE snapshot
     /\ calls' = Started(calls, "delete", row, store)
     /\ last' = Quiet
     /\ UNCHANGED <<optimisticUpdates, conditions, phase, loader, remote>>

\* What the call at place c does once its remote call has answered.
Resume(c, success) ==
  IF calls[c].op = "update"
  THEN UpdateResume(store, backup, optimisticUpdates, calls[c].row, success)
  ELSE DeleteResume(store, backup, optimisticUpdates, calls[c].row, success)

\* The remote call of the call at place c answers and the call runs to its
\* end: it returns ret or throws.  (The invokeTime that update returns
\* beside the status is the clock read at its first line; no clock is
\* modelled.)
Settle(c, success) ==
  /\ c \in DOMAIN calls
  /\ LET r == Resume(c, success)
     IN /\ store' = r.store
        /\ backup' = r.data
        /\ snapshot' = IF r.notify THEN Values(r.store) ELSE snapshot
        /\ last' = [act |-> "settle", op |-> calls[c].op,
                    id |-> CallIdentity(calls[c].row), success |-> success,
                    threw |-> r.threw,
                    ret |-> IF r.threw THEN Undefined ELSE r.ret,
                    pre |-> calls[c].pre, hist |-> calls[c].hist,
                    same |-> calls[c].same]
  /\ calls' = Settled(calls, c, success)
  /\ UNCHANGED <<optimisticUpdates, conditions, phase, loader, remote>>

\* What callers pass to update and delete on the identities ids: TableRow
\* instances, as PessimisticBackup.backup and release declare.
CallData(ids) == {r \in RowData : r.pk \in ids}

CallRows(ids) == {NewTableRow(d) : d \in CallData(ids)}

\* The events of the realtime channel about the identities ids.
PayloadsOf(ids) ==
  {p \in Payloads :
     ParseSubscriptionPayload(p).tableRow.id \in ids}

Next ==
  \/ \E cond \in FilterConds : Filter(cond)
  \/ InitCall
  \/ CountAnswer
  \/ FetchAnswer
  \/ SubscribeChannel
  \/ \E payload \in Payloads : Push(payload)
  \/ \E row \in CallRows(Keys) : UpdateCall(row)
  \/ \E row \in CallRows(Keys) : DeleteCall(row)
  \/ \E c \in 1..MaxCalls, success \in BOOLEAN : Settle(c, success)
  \/ \E row \in RowData : RemoteInsert(row)
  \/ \E row \in RowData : RemoteUpdate(row)
  \/ \E pk \in Keys : RemoteDelete(pk)

Spec == Init /\ [][Next]_vars

\* init() seen alone: the table is constructed over a remote table that
\* lists its rows by primary key, init() runs through the count query, the
\* page fetches and the subscription while filter() may be called and
\* other clients write the row k1; this client makes no update or delete
\* call.
InitLoad ==
  /\ Init
  /\ \A i, j \in DOMAIN remote :
       i < j => KeyRank(remote[i].pk) < KeyRank(remote[j].pk)

NextLoad ==
  \/ \E cond \in FilterConds : Filter(cond)
  \/ InitCall
  \/ CountAnswer
  \/ FetchAnswer
  \/ SubscribeChannel
  \/ \E row \in CallData({"k1"}) : RemoteInsert(row)
  \/ \E row \in CallData({"k1"}) : RemoteUpdate(row)
  \/ RemoteDelete("k1")

SpecLoad == InitLoad /\ [][NextLoad]_vars

\* checkConditions seen alone: a live table whose conditions are any
\* MaxSet conditions at most on the column score, one of the six operators
\* or an operator checkCondition does not know, and the push events about
\* the row k1, each of which the handler hands to checkConditions.
Operators == {"eq", "neq", "gt", "lt", "gte", "lte", "like"}

ConditionSets ==
  SeqsUpTo([type : Operators, column : {"score"}, value : Vals], MaxSet)

InitCheck ==
  /\ optimisticUpdates = FALSE
  /\ conditions \in ConditionSets
  /\ store = <<>>
  /\ snapshot = <<>>
  /\ backup = [k \in {} |-> Undefined]
  /\ calls = <<>>
  /\ phase = "Live"
  /\ loader = [pc |-> "done"]
  /\ remote = <<>>
  /\ last = Quiet

NextCheck == \E payload \in PayloadsOf({"k1"}) : Push(payload)

SpecCheck == InitCheck /\ [][NextCheck]_vars

\* init() over a remote table that no other client writes.
NextStable ==
  \/ \E cond \in FilterConds : Filter(cond)
  \/ InitCall
  \/ CountAnswer
  \/ FetchAnswer
  \/ SubscribeChannel

SpecStable == InitLoad /\ [][NextStable]_vars

\* A live table seen through one row: init() has run on a backend that
\* reported no rows, and the push events and the local calls are about
\* the identity k1.
InitLive ==
  /\ optimisticUpdates \in BOOLEAN
  /\ conditions = <<>>
  /\ store = <<>>
  /\ snapshot = <<>>
  /\ backup = [k \in {} |-> Undefined]
  /\ calls = <<>>
  /\ phase = "Live"
  /\ loader = [pc |-> "done"]
  /\ remote = <<>>
  /\ last = Quiet

NextLive ==
  \/ \E cond \in FilterConds : Filter(cond)
  \/ \E payload \in PayloadsOf({"k1"}) : Push(payload)
  \/ \E row \in CallRows({"k1"}) : UpdateCall(row)
  \/ \E row \in CallRows({"k1"}) : DeleteCall(row)
  \/ \E c \in 1..MaxCalls, success \in BOOLEAN : Settle(c, success)

SpecLive == InitLive /\ [][NextLive]_vars

\* ------------------------------------------------------------ properties
\* The last step was the end of a call `op` whose remote call answered
\* `success`.
Ended(op, success) ==
  last.act = "settle" /\ last.op = op /\ last.success = success

\* The identities of the rows of a subscriber snapshot.
SnapshotIds(snap) == {GenerateRowID(snap[i]) : i \in DOMAIN snap}

\* C1: in optimistic mode, when update's remote write has failed and nothing
\* else has touched the identity meanwhile, the cache holds for the identity
\* what it held just before update was called.
C1_RollbackToPreMutation ==
  (optimisticUpdates /\ Ended("update", FALSE) /\ last.hist = "solo")
    => MapGet(store, last.id) = last.pre

\* C2: an identity with no local mutation in flight has no entry in the
\* backup log.
C2_BackupReleased ==
  \A id \in Keys : Awaiting(calls, id) = {} => ~Has(backup, id)

\* C3 as stated: a push event of any kind that arrives while its identity
\* is in the backup log changes neither the cache nor the snapshot.
C3_AnyEventSuppressed ==
  [][(last'.act = "push" /\ Has(backup, last'.id))
       => (store' = store /\ snapshot' = snapshot)]_vars

\* C3 as amended: a push INSERT or UPDATE event whose row passes the
\* conditions and that arrives while its identity is in the backup log
\* changes neither the cache nor the snapshot.
C3_StaleEventSuppressed ==
  [][(/\ last'.act = "push"
      /\ last'.event \in {"INSERT", "UPDATE"}
      /\ last'.relevant
      /\ Has(backup, last'.id))
       => (store' = store /\ snapshot' = snapshot)]_vars

\* A relevant UPDATE has arrived for a row that an optimistic delete in
\* flight had removed, and the row is still not in the cache.
C3_Witness ==
  /\ last.act = "push"
  /\ last.event = "UPDATE"
  /\ last.relevant
  /\ Has(backup, last.id)
  /\ ~MapHas(store, last.id)

\* C4: after a push event of any kind whose row fails the conditions, a
\* row that was in the cache is in neither the cache nor the snapshot.
C4_EvictionOnDrift ==
  (last.act = "push" /\ ~last.relevant /\ last.cached)
    => (~MapHas(store, last.id) /\ last.id \notin SnapshotIds(snapshot))

\* An UPDATE that fails the conditions has arrived for a cached row.
C4_Witness ==
  /\ last.act = "push"
  /\ last.event = "UPDATE"
  /\ ~last.relevant
  /\ last.cached

\* C5: two overlapping optimistic updates of one identity have both
\* failed (here the one that began first ends last): the cache holds what
\* it held before the first began, and the backup entry is gone.
C5_BothFailRestoreFirst ==
  (optimisticUpdates /\ Ended("update", FALSE) /\ last.hist = "leadF")
    => (MapGet(store, last.id) = last.pre /\ ~Has(backup, last.id))

\* C6: of two overlapping optimistic updates of one identity one has
\* succeeded and then the other fails (here the one that began first): its
\* rollback leaves in the cache what the cache held just before it began.
C6_RollbackOfFailingCall ==
  (optimisticUpdates /\ Ended("update", FALSE) /\ last.hist = "leadS")
    => MapGet(store, last.id) = last.pre

\* C7, the removal: in optimistic mode delete removes the row before the
\* remote call.  (The failure that follows is stated next, for a delete
\* that nothing else has touched and whose caller passed the cached row.)
C7_DeleteRemovesFirst ==
  [][\A row \in CallRows(Keys) :
       (optimisticUpdates /\ DeleteCall(row))
         => ~MapHas(store', CallIdentity(row))]_vars

\* C7, the failure: the row is back with the data it had, and delete has
\* returned false.
C7_DeleteRestoresOnFailure ==
  (/\ optimisticUpdates
   /\ Ended("delete", FALSE)
   /\ last.hist = "solo"
   /\ last.same)
    => (~last.threw /\ last.ret = FALSE /\ MapGet(store, last.id) = last.pre)

\* C8: delete always ends by returning the boolean outcome of the remote
\* delete, in either mode.
C8_DeleteReturnsOutcome ==
  (last.act = "settle" /\ last.op = "delete")
    => (~last.threw /\ last.ret = last.success)

\* C9: update always ends by returning the outcome of the remote write as
\* its status, in either mode.
C9_UpdateReturnsOutcome ==
  (last.act = "settle" /\ last.op = "update")
    => (~last.threw /\ last.ret.status = last.success)

\* The step is the end of the call at place c, its remote call having
\* answered `success`, and the call goes through release.
Releases(c, success) ==
  /\ c \in DOMAIN calls
  /\ last'.act = "settle"
  /\ last'.op = calls[c].op
  /\ last'.success = success
  /\ calls' = Settled(calls, c, success)
  /\ IF calls[c].op = "update" THEN optimisticUpdates /\ success
     ELSE ~optimisticUpdates \/ success

\* C10: release for a row with no entry in the backup log throws, and the
\* backup log and the cache stay as they were.
C10_ReleaseAbsentThrows ==
  [][\A c \in 1..MaxCalls, success \in BOOLEAN :
       (/\ Releases(c, success)
        /\ ~Has(backup, GetId(calls[c].row)))
         => (/\ last'.threw
             /\ backup' = backup
             /\ store' = store
             /\ snapshot' = snapshot)]_vars

\* A delete in non-optimistic mode, which took no backup, has ended in the
\* throw of release, a row being in the cache.
C10_Witness ==
  /\ ~optimisticUpdates
  /\ last.act = "settle"
  /\ last.op = "delete"
  /\ last.threw
  /\ store # <<>>

\* The step is the beginning of an update or delete call in optimistic
\* mode, which goes through backup: the call is the last of calls'.
Backs ==
  /\ optimisticUpdates
  /\ Len(calls') = Len(calls) + 1
  /\ last'.act = "none"

\* C11: every entry of the backup log counts at least one subscriber;
\* backup on an identity that has an entry adds one to its count and leaves
\* the stored snapshot as it was, backup on an absent identity makes an
\* entry that counts one; release removes the entry exactly when the count
\* comes down to zero, and otherwise leaves the entry with the same
\* snapshot, which it returns.
C11_RefCounts ==
  /\ [](\A id \in DOMAIN backup : backup[id].subscribers >= 1)
  /\ [][Backs =>
          LET row == calls'[Len(calls')].row
              id == GetId(row)
          IN /\ Has(backup', id)
             /\ \A k \in (DOMAIN backup') \ {id} :
                  Has(backup, k) /\ backup'[k] = backup[k]
             /\ IF Has(backup, id)
                THEN /\ backup'[id].subscribers = backup[id].subscribers + 1
                     /\ backup'[id].row = backup[id].row
                ELSE /\ backup'[id].subscribers = 1
                     /\ backup'[id].row = StructuredClone(row)]_vars
  /\ [][\A c \in 1..MaxCalls, success \in BOOLEAN :
          (Releases(c, success) /\ Has(backup, GetId(calls[c].row))) =>
            LET id == GetId(calls[c].row)
            IN /\ ~last'.threw
               /\ Release(backup, calls[c].row).ret = backup[id].row
               /\ Has(backup', id) <=> backup[id].subscribers > 1
               /\ Has(backup', id) =>
                    /\ backup'[id].subscribers = backup[id].subscribers - 1
                    /\ backup'[id].row = backup[id].row
               /\ \A k \in (DOMAIN backup) \ {id} :
                    Has(backup', k) /\ backup'[k] = backup[k]]_vars

\* Two optimistic calls on one identity have overlapped, the second backup
\* having counted two, and one of them has succeeded: its release has left
\* the entry, which counts one.
C11_Witness ==
  /\ optimisticUpdates
  /\ last.act = "settle"
  /\ last.success
  /\ ~last.threw
  /\ calls # <<>>
  /\ Has(backup, last.id)
  /\ backup[last.id].subscribers = 1

\* The initial load has just ended with the answer of its last page.
LoadComplete ==
  loader.pc = "subscribe" /\ last.act = "page" /\ ~last.error

\* C12 as stated: every window requested stops at the last row counted at
\* the latest, so that the last of the windows ends at count - 1.
C12_WindowsEndAtCount ==
  loader.pc = "fetch" =>
    loader.end = IF loader.start + PageSize < loader.count
                 THEN loader.start + PageSize - 1
                 ELSE loader.count - 1

\* C12 as amended: for a count N and the page size P the load requests the
\* windows [0, P-1], [P, 2P-1], ... one after the other while the start is
\* below N, each window being P wide (the last one ends at or after N-1);
\* every row of a page is in the cache once the page has answered, and
\* when no condition is set a completed load leaves in the cache the rows
\* of the remote table, each once, in the order of the backend.
C12_Pagination ==
  /\ [](loader.pc = "fetch" =>
          /\ loader.start % PageSize = 0
          /\ loader.start < loader.count
          /\ loader.end = loader.start + PageSize - 1)
  /\ [](LoadComplete =>
          /\ last.start < last.count
          /\ last.count <= last.start + PageSize
          /\ conditions = <<>> => Values(store) = remote)
  /\ [][(last'.act = "count" /\ ~last'.error /\ last'.count > 0)
          => (/\ loader'.pc = "fetch"
              /\ loader'.start = 0
              /\ loader'.count = last'.count)]_vars
  /\ [][(last'.act = "page" /\ ~last'.error)
          => (/\ \A i \in DOMAIN last'.data :
                   MapGet(store', last'.data[i].pk) = last'.data[i]
              /\ IF last'.start + PageSize < last'.count
                 THEN /\ loader'.pc = "fetch"
                      /\ loader'.start = last'.start + PageSize
                      /\ loader'.count = last'.count
                 ELSE loader'.pc = "subscribe")]_vars

\* A load of a count that is no multiple of the page size has completed
\* with its second window, and the cache holds the rows of the table.
C12_Witness ==
  /\ LoadComplete
  /\ last.start = PageSize
  /\ last.count < 2 * PageSize
  /\ conditions = <<>>
  /\ Len(store) = last.count
  /\ Values(store) = remote

\* C13: when the count query fails no page is requested; when the fetch
\* of a page fails the load ends, the cache and the snapshot keeping the
\* rows of the pages before; and once the load has ended no count query
\* and no page is requested again.
C13_LoadAbortsOnError ==
  /\ [][(last'.act = "count" /\ last'.error)
          => (loader'.pc = "subscribe" /\ store' = store)]_vars
  /\ [][(last'.act = "page" /\ last'.error)
          => (/\ loader'.pc = "subscribe"
              /\ store' = store
              /\ snapshot' = snapshot)]_vars
  /\ [][loader.pc \in {"subscribe", "done"}
          => loader'.pc \in {"subscribe", "done"}]_vars

\* The fetch of the second page has failed, and the cache holds the rows
\* of the first.
C13_Witness ==
  /\ last.act = "page"
  /\ last.error
  /\ last.start = PageSize
  /\ Len(store) = PageSize
  /\ loader.pc = "subscribe"

Holds(d, c) ==
  LET has == c.column \in DOMAIN d
  IN \/ c.type = "eq" /\ has /\ d[c.column] = c.value
     \/ c.type = "neq" /\ (has => d[c.column] # c.value)
     \/ c.type = "gt" /\ has /\ c.value < d[c.column]
     \/ c.type = "lt" /\ has /\ d[c.column] < c.value
     \/ c.type = "gte" /\ has /\ ~(d[c.column] < c.value)
     \/ c.type = "lte" /\ has /\ ~(c.value < d[c.column])

\* The row data a push event may carry.
EventData == RowData \cup [pk : Keys]

\* C15: for every row and the conditions of the table, checkConditions
\* is true exactly when every condition holds as the comparison of its
\* operator; no condition at all gives true, and a condition with an
\* operator that is none of the six gives false.
C15_CheckConditions ==
  \A d \in EventData :
    LET result == CheckConditions(NewTableRow(d), conditions)
    IN /\ result <=> \A i \in DOMAIN conditions : Holds(d, conditions[i])
       /\ conditions = <<>> => result
       /\ (\E i \in DOMAIN conditions :
             conditions[i].type \notin {"eq", "neq", "gt", "lt", "gte", "lte"})
            => ~result

\* The handler has found the row of an UPDATE irrelevant under two
\* conditions, the first of which every row with a score passes, the
\* second having an operator that is none of the six.
C15_Witness ==
  /\ last.act = "push"
  /\ last.event = "UPDATE"
  /\ ~last.relevant
  /\ Len(conditions) = 2
  /\ \A d \in RowData : Holds(d, conditions[1])
  /\ conditions[2].type = "like"

\* The place of a phase in the order Uninitialized, Loading, Live.
PhaseRank(p) ==
  CASE p = "Uninitialized" -> 0 [] p = "Loading" -> 1 [] p = "Live" -> 2

\* C16: the table goes from Uninitialized to Loading to Live, one phase
\* at a time and never back; it is Loading exactly while init() is in
\* _addInitialRows or about to subscribe, it becomes Live by the call of
\* _subscribeToChannel that follows the end of the load, the handler runs
\* on no push event before that, and init() has resolved only when the
\* table is Live.
C16_InitOrder ==
  /\ [](/\ phase = "Uninitialized" <=> loader.pc = "idle"
        /\ phase = "Loading" <=> loader.pc \in {"count", "fetch", "subscribe"}
        /\ phase = "Live" <=> loader.pc = "done")
  /\ [][/\ PhaseRank(phase') \in {PhaseRank(phase), PhaseRank(phase) + 1}
        /\ (phase = "Loading" /\ phase' = "Live") => loader.pc = "subscribe"
        /\ last'.act = "push" => (phase = "Live" /\ loader.pc = "done")]_vars

\* A push event has been handled by a table that went Live after its
\* load had put rows in the cache.
C16_Witness ==
  /\ phase = "Live"
  /\ loader.pc = "done"
  /\ last.act = "push"
  /\ Len(store) > 1

\* C17: once a page of the initial load has been ingested, no row of the
\* page that fails the conditions of the table is in the cache.
C17_FetchedRowsChecked ==
  (last.act = "page" /\ ~last.error) =>
    \A i \in DOMAIN last.data :
      ~CheckConditions(NewTableRow(last.data[i]), conditions)
        => MapGet(store, last.data[i].pk) # last.data[i]

\* C18: a push INSERT or UPDATE event whose row passes the conditions and
\* whose identity has no update or delete call in flight leaves the row of
\* the event in the cache, whatever calls on that identity have ended
\* before.
C18_IdlePushUpserts ==
  [][\A payload \in PayloadsOf(Keys) :
       (/\ Push(payload)
        /\ payload.eventType \in {"INSERT", "UPDATE"}
        /\ CheckConditions(NewTableRow(payload.new), conditions)
        /\ Awaiting(calls, GenerateRowID(payload.new)) = {})
         => MapGet(store', GenerateRowID(payload.new)) = payload.new]_vars

\* C19: a row that passes the conditions and that a page of the load has
\* put in the cache is updated or deleted in the remote table after the
\* load has ended, the cache holding the rows of the remote table, and
\* before the channel is subscribed; the table then goes Live: the cache
\* holds for that row what the remote table holds.
C19_HandoverKeepsChanges ==
  [][(/\ phase = "Loading"
      /\ phase' = "Live"
      /\ last.act = "missed"
      /\ last.relevant
      /\ last.loaded
      /\ MapHas(store, last.id))
       => MapGet(store', last.id) = RowOf(remote', last.id)]_vars

\* C20: once init() has run, every row of the cache passes the conditions
\* of the table.
C20_CachedRowsRelevant ==
  phase = "Live" =>
    \A i \in DOMAIN store :
      CheckConditions(NewTableRow(store[i].data), conditions)

====
